---- MODULE Spec2Model ----
(***************************************************************************)
(* The index coordinator of tantivy (src/core/index.rs): the in-memory     *)
(* IndexMeta behind its RwLock, the meta.json file of the Directory, the   *)
(* searcher pool, and the publication protocol                             *)
(*     lock meta / update / unlock ; save_metas ; load_searchers           *)
(* run by several clones of the Index, each step being one action.         *)
(***************************************************************************)
EXTENDS Integers, Sequences, FiniteSets, Bags, TLC

\* ------------------------------------------------------------------ bounds
NumSegIds == 2
MaxIds == 1
MaxDocstamp == 1
MaxCalls == 2
MaxPending == 2

\* ------------------------------------------------------- program constants
NUM_SEARCHERS == 12

\* ------------------------------------------------------------- input sets
SegIds == 1..NumSegIds
Docstamps == 0..MaxDocstamp
Schemas == {"schemaA"}
NewSchemas == {"schemaA", "schemaB"}
Clones == {"c1", "c2"}
Readers == {"r1"}

RECURSIVE SeqsUpTo(_)
SeqsUpTo(n) ==
    IF n = 0 THEN {<<>>}
    ELSE LET shorter == SeqsUpTo(n - 1)
         IN  shorter \cup {Append(s, x) : s \in {q \in shorter : Len(q) = n - 1}, x \in SegIds}

IdSlices == SeqsUpTo(MaxIds)

Range(s) == {s[i] : i \in 1..Len(s)}

\* ---------------------------------------------------------------- state
VARIABLES
    metas,      \* Index.metas : the IndexMeta behind the RwLock (shared by clones)
    disk,       \* bytes of meta.json in the directory, as a token sequence
    pool,       \* Index.searcher_pool : [generation, queue (a bag of items)]
    lease,      \* per query client: the LeasedItem<Searcher> it holds, or NoLease
    pc,         \* per clone: position inside publish_*
    buf,        \* per clone: the local Vec<u8> `w` of save_metas
    built,      \* per clone: the searchers load_searchers has collected so far
    ret,        \* per clone: result of its last publish_* call ("none" while running)
    ncalls,     \* number of publish_* (or load_searchers) calls started
    call,       \* history: the arguments of the most recent publish_* call
    pre,        \* history: in-memory meta when that call started
    preDisk,    \* history: bytes of meta.json when that call started
    post,       \* history: in-memory meta right after that call's locked update
    crash,      \* history: "none", or where the call stood when the process crashed
    allOk,      \* history: no publish_* call has returned an error so far
    leased,     \* the LeasedItem<Searcher>s held by the other query clients (a bag)
    lock,       \* the RwLock of Index.metas: [writer, readers]
    files,      \* the other virtual files of the directory: path -> [exists, bytes]
    tmp,        \* per path: the atomic_write in progress and its sibling temp file
    writer,     \* per path: the WritePtr open_write returned, with its unflushed bytes
    source,     \* per directory reader: the ReadOnlySource open_read returned
    dret        \* the last Directory call that returned and its result

hist == <<call, pre, preDisk, post, crash>>
dir == <<files, tmp, writer, source, dret>>
vars == <<metas, disk, pool, lease, pc, buf, built, ret, ncalls, allOk, hist,
          leased, lock, dir>>

NoLease == [gen |-> 0, segs |-> <<>>]
NoCall == [op |-> "none", ids |-> <<>>, docstamp |-> 0, merged |-> {}, result |-> 0,
           schema |-> ""]
NoCrash == [at |-> "none", ok |-> TRUE]

\* The Directory: meta.json (the variable disk) and the other virtual files.
META_FILEPATH == "meta.json"
TEST_PATH == "some_path_for_test"
FilePaths == {TEST_PATH}
AllPaths == {META_FILEPATH} \cup FilePaths
DirReaders == {"d1"}

NoFile == [exists |-> FALSE, bytes |-> <<>>]
NoTmp == [phase |-> "none", data |-> <<>>, n |-> 0, old |-> NoFile]
NoWriter == [open |-> FALSE, pending |-> <<>>]
NoSource == [path |-> "", ok |-> FALSE, bytes |-> <<>>, during |-> NoTmp]
NoRet == [op |-> "none", path |-> "", res |-> "ok"]
NoLock == [writer |-> "none", readers |-> {}]

\* ------------------------------------------------------------ IndexMeta
with_schema(schema) == [segments |-> <<>>, schema |-> schema, docstamp |-> 0]

\* json::as_pretty_json(&meta) followed by "\n" : the text of meta.json.
RECURSIVE IdTokens(_)
IdTokens(ids) ==
    IF ids = <<>> THEN <<>> ELSE <<ToString(Head(ids))>> \o IdTokens(Tail(ids))

\* Mutant: the docstamp field is left out of the serialization.
EncodeWithoutDocstamp(m) ==
    <<"{", "segments", "[">> \o IdTokens(m.segments) \o
    <<"]", "schema", m.schema, "docstamp", ToString(0), "}", "\n">>

Encode(m) ==
    <<"{", "segments", "[">> \o IdTokens(m.segments) \o
    <<"]", "schema", m.schema, "docstamp", ToString(m.docstamp), "}", "\n">>

\* json::decode of the text of meta.json; Corrupted stands for Error::CorruptedFile.
Corrupted == [ok |-> FALSE, meta |-> with_schema("")]

ParseId(tok) == IF \E s \in SegIds : ToString(s) = tok
                THEN CHOOSE s \in SegIds : ToString(s) = tok
                ELSE 0

ParseU64(tok) == IF \E d \in Docstamps : ToString(d) = tok
                 THEN CHOOSE d \in Docstamps : ToString(d) = tok
                 ELSE -1

\* The meta the parsed fields make up, or Corrupted when one did not parse.
Decoded(segs, schema, d) ==
    IF d < 0 \/ \E i \in 1..Len(segs) : segs[i] = 0
    THEN Corrupted
    ELSE [ok |-> TRUE, meta |-> [segments |-> segs, schema |-> schema, docstamp |-> d]]

Decode(bytes) ==
    LET n == Len(bytes)
        k == n - 10   \* number of segment tokens
    IN  IF n < 10 THEN Corrupted
        ELSE IF ~ ( /\ bytes[1] = "{" /\ bytes[2] = "segments" /\ bytes[3] = "["
                    /\ bytes[k + 4] = "]" /\ bytes[k + 5] = "schema"
                    /\ bytes[k + 7] = "docstamp" /\ bytes[k + 9] = "}" )
        THEN Corrupted
        ELSE Decoded([i \in 1..k |-> ParseId(bytes[i + 3])], bytes[k + 6],
                     ParseU64(bytes[k + 8]))

\* ------------------------------------------------------------------ Pool
\* The searchers, each tagged with the generation gen, as a bag.
RECURSIVE ItemsToBag(_, _)
ItemsToBag(searchers, gen) ==
    IF searchers = <<>> THEN EmptyBag
    ELSE SetToBag({[gen |-> gen, segs |-> Head(searchers)]}) (+) ItemsToBag(Tail(searchers), gen)

NewPool == [generation |-> 0, queue |-> EmptyBag]

\* Mutant: the queue is not emptied when a generation is published.
PublishKeepsQueue(p, searchers) ==
    [generation |-> p.generation + 1,
     queue |-> p.queue (+) ItemsToBag(searchers, p.generation + 1)]

publish_new_generation(p, searchers) ==
    [generation |-> p.generation + 1,
     queue |-> ItemsToBag(searchers, p.generation + 1)]

Replicate(x) == [i \in 1..NUM_SEARCHERS |-> x]

\* ------------------------------------------------- the locked meta updates
\* Mutant: the new ids are put before the existing segments.
PublishSegmentsPrepend(m, ids, docstamp) ==
    [m EXCEPT !.segments = ids \o m.segments, !.docstamp = docstamp]

PublishSegmentsUpdate(m, ids, docstamp) ==
    [m EXCEPT !.segments = m.segments \o ids, !.docstamp = docstamp]

\* Mutant: the filter keeps the merged segments (the negation is lost).
PublishMergeKeepsMerged(m, merged, result) ==
    [m EXCEPT !.segments =
        Append(SelectSeq(m.segments, LAMBDA s : s \in merged), result)]

PublishMergeUpdate(m, merged, result) ==
    [m EXCEPT !.segments =
        Append(SelectSeq(m.segments, LAMBDA s : s \notin merged), result)]

\* ----------------------------------------------------------------- Init
\* The state after Index::from_directory, lines 117-121: an empty meta, one
\* generation of searchers over no segment, meta.json saved.
Init ==
    /\ \E schema \in Schemas :
          /\ metas = with_schema(schema)
          /\ disk = Encode(with_schema(schema))
    /\ pool = publish_new_generation(NewPool, Replicate(<<>>))
    /\ lease = [r \in Readers |-> NoLease]
    /\ pc = [t \in Clones |-> "idle"]
    /\ buf = [t \in Clones |-> <<>>]
    /\ built = [t \in Clones |-> <<>>]
    /\ ret = [t \in Clones |-> "none"]
    /\ ncalls = 0
    /\ call = NoCall
    /\ pre = metas
    /\ preDisk = disk
    /\ post = metas
    /\ allOk = TRUE
    /\ crash = NoCrash
    /\ leased = EmptyBag
    /\ lock = NoLock
    /\ files = [p \in FilePaths |-> NoFile]
    /\ tmp = [p \in AllPaths |-> NoTmp]
    /\ writer = [p \in FilePaths |-> NoWriter]
    /\ source = [r \in DirReaders |-> NoSource]
    /\ dret = NoRet

\* -------------------------------------------------------------- actions
\* Entry of publish_* up to the end of the write-locked block: the in-memory
\* meta becomes m. (A run is followed up to its first reopen: no call is
\* started after it.)
StartCall(t, m) ==
    /\ pc[t] = "idle"
    /\ ncalls < MaxCalls
    /\ crash.at = "none"
    /\ ncalls' = ncalls + 1
    /\ metas' = m
    /\ pc' = [pc EXCEPT ![t] = "save"]
    /\ ret' = [ret EXCEPT ![t] = "none"]
    /\ UNCHANGED <<disk, pool, lease, buf, built, allOk, leased, lock, dir>>

\* publish_segments, lines 176-180: the write-locked block.
PublishSegments(t, ids, docstamp) ==
    StartCall(t, PublishSegmentsUpdate(metas, ids, docstamp))

\* publish_merge_segment, lines 188-198: the write-locked block.
PublishMergeSegment(t, merged, result) ==
    StartCall(t, PublishMergeUpdate(metas, merged, result))

\* History of the call that starts in this step: its arguments and the
\* state it started from.
RecordCall(c) ==
    /\ call' = c
    /\ pre' = metas
    /\ preDisk' = disk
    /\ UNCHANGED <<post, crash>>

\* History of the call that starts in this step: the meta.json it started
\* from and the meta it publishes.
RecordPublication ==
    /\ preDisk' = disk
    /\ post' = metas'
    /\ UNCHANGED <<call, pre, crash>>

\* A publish_* call returns r.
Return(t, r) ==
    /\ pc' = [pc EXCEPT ![t] = "idle"]
    /\ ret' = [ret EXCEPT ![t] = r]
    /\ allOk' = (allOk /\ r = "ok")
    /\ UNCHANGED <<hist, leased, lock, dir>>

\* Mutant: save_metas writes the serialization into meta.json while it is
\* produced, before atomic_write is reached.
SaveMetasInPlace(t) ==
    /\ pc[t] = "save"
    /\ buf' = [buf EXCEPT ![t] = Encode(metas)]
    /\ disk' = Encode(metas)
    /\ pc' = [pc EXCEPT ![t] = "write"]
    /\ UNCHANGED <<metas, pool, lease, built, ret, ncalls, allOk, hist, leased, lock, dir>>

\* save_metas, lines 261-265: serialize the meta under the read lock.
SaveMetasSerialize(t) ==
    /\ pc[t] = "save"
    /\ buf' = [buf EXCEPT ![t] = Encode(metas)]
    /\ pc' = [pc EXCEPT ![t] = "write"]
    /\ UNCHANGED <<metas, disk, pool, lease, built, ret, ncalls, allOk, hist, leased, lock, dir>>

\* Directory::atomic_write succeeding: the file holds exactly the new bytes.
AtomicWriteOk(t) ==
    /\ pc[t] = "write"
    /\ disk' = buf[t]
    /\ buf' = [buf EXCEPT ![t] = <<>>]
    /\ pc' = [pc EXCEPT ![t] = "load"]
    /\ UNCHANGED <<metas, pool, lease, built, ret, ncalls, allOk, hist, leased, lock, dir>>

\* Directory::atomic_write failing: the file is untouched, try! returns the error.
AtomicWriteFail(t) ==
    /\ pc[t] = "write"
    /\ buf' = [buf EXCEPT ![t] = <<>>]
    /\ Return(t, "err")
    /\ UNCHANGED <<metas, disk, pool, lease, built, ncalls>>

\* The searcher one iteration of the closure of load_searchers builds,
\* lines 279-286: a reader per segment of self.segments().
OpenSearcher(m) == m.segments

\* One iteration of the closure, lines 278-287, every SegmentReader::open
\* succeeding.
LoadSearcher(t) ==
    /\ pc[t] = "load"
    /\ Len(built[t]) < NUM_SEARCHERS
    /\ built' = [built EXCEPT ![t] = Append(built[t], OpenSearcher(metas))]
    /\ UNCHANGED <<metas, disk, pool, lease, pc, buf, ret, ncalls, allOk, hist, leased, lock, dir>>

\* One iteration of the closure in which a SegmentReader::open fails:
\* try! at line 289 returns the error, nothing is published.
LoadSearcherFail(t) ==
    /\ pc[t] = "load"
    /\ Len(built[t]) < NUM_SEARCHERS
    /\ metas.segments # <<>>
    /\ built' = [built EXCEPT ![t] = <<>>]
    /\ Return(t, "err")
    /\ UNCHANGED <<metas, disk, pool, lease, buf, ncalls>>

\* load_searchers, line 290, and the Ok(()) of publish_*.
PublishGeneration(t) ==
    /\ pc[t] = "load"
    /\ Len(built[t]) = NUM_SEARCHERS
    /\ pool' = publish_new_generation(pool, built[t])
    /\ built' = [built EXCEPT ![t] = <<>>]
    /\ Return(t, "ok")
    /\ UNCHANGED <<metas, disk, lease, buf, ncalls>>

\* Mutant: the searchers share the live segment list, so publishing a
\* generation also changes the searchers that are leased out.
LoadSearchersSharedSegments(t) ==
    /\ pc[t] = "load"
    /\ pool' = publish_new_generation(pool, Replicate(OpenSearcher(metas)))
    /\ lease' = [r \in Readers |->
                   IF lease[r] = NoLease THEN NoLease
                   ELSE [lease[r] EXCEPT !.segs = metas.segments]]
    /\ Return(t, "ok")
    /\ UNCHANGED <<metas, disk, buf, built, ncalls>>

\* load_searchers, lines 276-292, run with no other clone publishing: the
\* NUM_SEARCHERS iterations read the same meta.
LoadSearchers(t) ==
    /\ pc[t] = "load"
    /\ pool' = publish_new_generation(pool, Replicate(OpenSearcher(metas)))
    /\ Return(t, "ok")
    /\ UNCHANGED <<metas, disk, lease, buf, built, ncalls>>

\* Mutant: the searchers built before the failing one are published.
LoadSearchersFailPublishes(t) ==
    /\ pc[t] = "load"
    /\ metas.segments # <<>>
    /\ pool' = publish_new_generation(pool, <<OpenSearcher(metas)>>)
    /\ Return(t, "err")
    /\ UNCHANGED <<metas, disk, lease, buf, built, ncalls>>

\* load_searchers in which a SegmentReader::open fails: try! at line 289
\* returns the error before publish_new_generation is reached.
LoadSearchersFail(t) ==
    /\ pc[t] = "load"
    /\ metas.segments # <<>>
    /\ Return(t, "err")
    /\ UNCHANGED <<metas, disk, pool, lease, buf, built, ncalls>>

\* Pool::acquire : take a queued searcher (blocks while the queue is empty).
Acquire(r) ==
    /\ lease[r] = NoLease
    /\ \E item \in BagToSet(pool.queue) :
          /\ lease' = [lease EXCEPT ![r] = item]
          /\ pool' = [pool EXCEPT !.queue = pool.queue (-) SetToBag({item})]
    /\ UNCHANGED <<metas, disk, pc, buf, built, ret, ncalls, allOk, hist, leased, lock, dir>>

\* Mutant: a dropped item is never put back into the queue.
ReturnItemDiscarded(p, item) == p

\* Drop of a LeasedItem : re-enqueue the item unless its generation is stale.
ReturnItem(p, item) ==
    IF item.gen = p.generation
    THEN [p EXCEPT !.queue = p.queue (+) SetToBag({item})]
    ELSE p

Release(r) ==
    /\ lease[r] # NoLease
    /\ pool' = ReturnItem(pool, lease[r])
    /\ lease' = [lease EXCEPT ![r] = NoLease]
    /\ UNCHANGED <<metas, disk, pc, buf, built, ret, ncalls, allOk, hist, leased, lock, dir>>

\* ------------------------------------------- the pool and its many clients
\* A query client that is inside searcher(), blocked in Pool::acquire.
Waiting == [gen |-> -1, segs |-> <<>>]

\* Besides the clients of Readers, this many clients lease searchers.
NumOtherClients == NUM_SEARCHERS + 1

\* Index::searcher is entered by client r, line 304.
SearcherCall(r) ==
    /\ lease[r] = NoLease
    /\ lease' = [lease EXCEPT ![r] = Waiting]
    /\ UNCHANGED <<metas, disk, pool, pc, buf, built, ret, ncalls, allOk, hist,
                   leased, lock, dir>>

\* Pool::acquire hands a queued searcher to the waiting client r.
SearcherReturn(r) ==
    /\ lease[r] = Waiting
    /\ \E item \in BagToSet(pool.queue) :
          /\ lease' = [lease EXCEPT ![r] = item]
          /\ pool' = [pool EXCEPT !.queue = pool.queue (-) SetToBag({item})]
    /\ UNCHANGED <<metas, disk, pc, buf, built, ret, ncalls, allOk, hist,
                   leased, lock, dir>>

\* The client r drops the LeasedItem it holds.
DropLease(r) ==
    /\ lease[r] # Waiting
    /\ Release(r)

\* searcher() called by one of the other clients and served at once.
AcquireOther ==
    /\ BagCardinality(leased) < NumOtherClients
    /\ \E item \in BagToSet(pool.queue) :
          /\ leased' = leased (+) SetToBag({item})
          /\ pool' = [pool EXCEPT !.queue = pool.queue (-) SetToBag({item})]
    /\ UNCHANGED <<metas, disk, lease, pc, buf, built, ret, ncalls, allOk, hist,
                   lock, dir>>

\* One of the other clients drops the item it leased.
ReleaseOtherItem(item) ==
    /\ BagIn(item, leased)
    /\ leased' = leased (-) SetToBag({item})
    /\ pool' = ReturnItem(pool, item)
    /\ UNCHANGED <<metas, disk, lease, pc, buf, built, ret, ncalls, allOk, hist,
                   lock, dir>>

ReleaseOther == \E item \in BagToSet(leased) : ReleaseOtherItem(item)

\* load_searchers, lines 276-292, called on its own (it is public and takes
\* &self): a new generation over the current meta.
LoadSearchersCall ==
    /\ ncalls < MaxCalls
    /\ ncalls' = ncalls + 1
    /\ pool' = publish_new_generation(pool, Replicate(OpenSearcher(metas)))
    /\ UNCHANGED <<metas, disk, lease, pc, buf, built, ret, allOk, hist,
                   leased, lock, dir>>

\* ------------------------------------------------------------ Directory
\* What atomic_write is given for a path other than meta.json, and what a
\* WritePtr is given in one write_all.
DataSet == {<<"a", "b">>, <<"c", "d">>}
Chunks == {<<"w">>, <<"x">>}

\* Everything but the directory: the state of the Index and of its clients.
idx == <<metas, pool, lease, pc, buf, built, ret, ncalls, allOk, hist, leased, lock>>

\* The virtual file at path p.
Content(p) == IF p = META_FILEPATH THEN [exists |-> TRUE, bytes |-> disk] ELSE files[p]

\* No &mut call of the directory's user is in progress.
UserIdle == \A p \in FilePaths : tmp[p].phase = "none"

Returned(op, p, res) == [op |-> op, path |-> p, res |-> res]

\* Mutant: open_write on an existing path truncates the file before it
\* reports FileAlreadyExists.
OpenWriteTruncates(p) ==
    /\ UserIdle
    /\ IF files[p].exists
       THEN /\ dret' = Returned("open_write", p, "FileAlreadyExists")
            /\ files' = [files EXCEPT ![p] = [exists |-> TRUE, bytes |-> <<>>]]
            /\ UNCHANGED writer
       ELSE /\ dret' = Returned("open_write", p, "ok")
            /\ files' = [files EXCEPT ![p] = [exists |-> TRUE, bytes |-> <<>>]]
            /\ writer' = [writer EXCEPT ![p] = [open |-> TRUE, pending |-> <<>>]]
    /\ UNCHANGED <<idx, disk, tmp, source>>

\* Directory::open_write, directory.rs:58 : creates the file and returns a
\* WritePtr, or fails with FileAlreadyExists when the path exists.
OpenWrite(p) ==
    /\ UserIdle
    /\ IF files[p].exists
       THEN /\ dret' = Returned("open_write", p, "FileAlreadyExists")
            /\ UNCHANGED <<files, writer>>
       ELSE /\ dret' = Returned("open_write", p, "ok")
            /\ files' = [files EXCEPT ![p] = [exists |-> TRUE, bytes |-> <<>>]]
            /\ writer' = [writer EXCEPT ![p] = [open |-> TRUE, pending |-> <<>>]]
    /\ UNCHANGED <<idx, disk, tmp, source>>

\* WritePtr::write_all : the bytes are buffered.
WriteAll(p, chunk) ==
    /\ UserIdle
    /\ writer[p].open
    /\ Len(files[p].bytes) + Len(writer[p].pending) < MaxPending
    /\ writer' = [writer EXCEPT ![p].pending = @ \o chunk]
    /\ UNCHANGED <<idx, disk, files, tmp, source, dret>>

\* WritePtr::flush : the buffered bytes become visible to open_read.
Flush(p) ==
    /\ UserIdle
    /\ writer[p].open
    /\ writer[p].pending # <<>>
    /\ files' = [files EXCEPT ![p].bytes = @ \o writer[p].pending]
    /\ writer' = [writer EXCEPT ![p].pending = <<>>]
    /\ UNCHANGED <<idx, disk, tmp, source, dret>>

\* The WritePtr is dropped, everything it was given being flushed.
DropWriter(p) ==
    /\ UserIdle
    /\ writer[p].open
    /\ writer[p].pending = <<>>
    /\ writer' = [writer EXCEPT ![p] = NoWriter]
    /\ UNCHANGED <<idx, disk, files, tmp, source, dret>>

\* Mutant: a ReadOnlySource is a view of the live file, so deleting the
\* file empties the sources opened on it.
DeleteInvalidatesSources(p) ==
    /\ UserIdle
    /\ ~ writer[p].open
    /\ IF files[p].exists
       THEN /\ dret' = Returned("delete", p, "ok")
            /\ files' = [files EXCEPT ![p] = NoFile]
            /\ source' = [r \in DirReaders |->
                             IF source[r].path = p
                             THEN [source[r] EXCEPT !.bytes = <<>>]
                             ELSE source[r]]
       ELSE /\ dret' = Returned("delete", p, "DoesNotExist")
            /\ UNCHANGED <<files, source>>
    /\ UNCHANGED <<idx, disk, tmp, writer>>

\* Directory::delete, directory.rs:37 (the WritePtr of the path, if any, was
\* dropped before).
Delete(p) ==
    /\ UserIdle
    /\ ~ writer[p].open
    /\ IF files[p].exists
       THEN /\ dret' = Returned("delete", p, "ok")
            /\ files' = [files EXCEPT ![p] = NoFile]
       ELSE /\ dret' = Returned("delete", p, "DoesNotExist")
            /\ UNCHANGED files
    /\ UNCHANGED <<idx, disk, tmp, writer, source>>

\* Directory::open_read, directory.rs:28, by reader r, who holds the result
\* until it drops it: a ReadOnlySource over the bytes the file holds now,
\* or DoesNotExist. (during: history, the atomic_write of the path that was
\* in progress.)
OpenRead(r, p) ==
    /\ source[r] = NoSource
    /\ source' = [source EXCEPT ![r] =
                     [path |-> p, ok |-> Content(p).exists,
                      bytes |-> Content(p).bytes, during |-> tmp[p]]]
    /\ dret' = Returned("open_read", p,
                        IF Content(p).exists THEN "ok" ELSE "DoesNotExist")
    /\ UNCHANGED <<idx, disk, files, tmp, writer>>

\* The reader drops the result of its open_read.
DropSource(r) ==
    /\ source[r] # NoSource
    /\ source' = [source EXCEPT ![r] = NoSource]
    /\ UNCHANGED <<idx, disk, files, tmp, writer, dret>>

\* Directory::atomic_write, directory.rs:66, as write-temp + rename.
\* Entry, by the directory's user: the sibling temp file is created.
AtomicWriteBegin(p, data) ==
    /\ UserIdle
    /\ ~ writer[p].open
    /\ tmp' = [tmp EXCEPT ![p] =
                  [phase |-> "writing", data |-> data, n |-> 0, old |-> files[p]]]
    /\ UNCHANGED <<idx, disk, files, writer, source, dret>>

\* Entry, by save_metas of clone t, index.rs:266-267.
AtomicWriteBeginMeta(t) ==
    /\ pc[t] = "write"
    /\ tmp[META_FILEPATH].phase = "none"
    /\ tmp' = [tmp EXCEPT ![META_FILEPATH] =
                  [phase |-> "writing", data |-> buf[t], n |-> 0,
                   old |-> Content(META_FILEPATH)]]
    /\ pc' = [pc EXCEPT ![t] = "atomic"]
    /\ UNCHANGED <<metas, disk, pool, lease, buf, built, ret, ncalls, allOk, hist,
                   leased, lock, files, writer, source, dret>>

\* Mutant: the bytes are written into the file itself.
TempWriteInPlace(p) ==
    /\ tmp[p].phase = "writing"
    /\ tmp[p].n < Len(tmp[p].data)
    /\ tmp' = [tmp EXCEPT ![p].n = @ + 1]
    /\ IF p = META_FILEPATH
       THEN disk' = SubSeq(tmp[p].data, 1, tmp[p].n + 1) /\ UNCHANGED files
       ELSE /\ files' = [files EXCEPT ![p] =
                            [exists |-> TRUE, bytes |-> SubSeq(tmp[p].data, 1, tmp[p].n + 1)]]
            /\ UNCHANGED disk
    /\ UNCHANGED <<idx, writer, source, dret>>

\* One more byte is written to the temp file.
TempWrite(p) ==
    /\ tmp[p].phase = "writing"
    /\ tmp[p].n < Len(tmp[p].data)
    /\ tmp' = [tmp EXCEPT ![p].n = @ + 1]
    /\ UNCHANGED <<idx, disk, files, writer, source, dret>>

\* The complete temp file is renamed onto the path.
RenameTemp(p) ==
    /\ tmp[p].phase = "writing"
    /\ tmp[p].n = Len(tmp[p].data)
    /\ tmp' = [tmp EXCEPT ![p].phase = "renamed"]
    /\ IF p = META_FILEPATH
       THEN disk' = tmp[p].data /\ UNCHANGED files
       ELSE /\ files' = [files EXCEPT ![p] = [exists |-> TRUE, bytes |-> tmp[p].data]]
            /\ UNCHANGED disk
    /\ UNCHANGED <<idx, writer, source, dret>>

\* atomic_write returns Ok to the directory's user.
AtomicWriteReturn(p) ==
    /\ tmp[p].phase = "renamed"
    /\ tmp' = [tmp EXCEPT ![p] = NoTmp]
    /\ dret' = Returned("atomic_write", p, "ok")
    /\ UNCHANGED <<idx, disk, files, writer, source>>

\* atomic_write returns Ok to save_metas of clone t.
AtomicWriteReturnMeta(t) ==
    /\ pc[t] = "atomic"
    /\ tmp[META_FILEPATH].phase = "renamed"
    /\ tmp' = [tmp EXCEPT ![META_FILEPATH] = NoTmp]
    /\ buf' = [buf EXCEPT ![t] = <<>>]
    /\ pc' = [pc EXCEPT ![t] = "load"]
    /\ UNCHANGED <<metas, disk, pool, lease, built, ret, ncalls, allOk, hist,
                   leased, lock, files, writer, source, dret>>

\* load_metas, lines 54-62, on the bytes of meta.json.
load_metas(bytes) == Decode(bytes)

\* Where the publish_* call of clone t stands: inside the call, or returned.
Progress(t) ==
    IF pc[t] # "idle" THEN pc[t]
    ELSE IF ret[t] = "ok" THEN "returned_ok" ELSE "returned_err"

\* The process dies at any point (its memory is lost, the directory stays)
\* and a new process runs Index::open, lines 124-128 and 104-114.
CrashReopen(t) ==
    /\ crash.at = "none"
    /\ ncalls > 0
    /\ \E loaded \in {load_metas(disk)} :
           /\ metas' = loaded.meta
           /\ \/ /\ loaded.ok
                 /\ pool' = publish_new_generation(NewPool, Replicate(OpenSearcher(loaded.meta)))
                 /\ crash' = [at |-> Progress(t), ok |-> TRUE]
              \/ /\ ~loaded.ok \/ loaded.meta.segments # <<>>
                 /\ pool' = NewPool
                 /\ crash' = [at |-> "openfailed", ok |-> FALSE]
    /\ lease' = [r \in Readers |-> NoLease]
    /\ pc' = [u \in Clones |-> "idle"]
    /\ buf' = [u \in Clones |-> <<>>]
    /\ built' = [u \in Clones |-> <<>>]
    /\ ret' = [u \in Clones |-> "none"]
    /\ allOk' = TRUE
    /\ UNCHANGED <<disk, ncalls, call, pre, preDisk, post, leased, lock, dir>>

\* ------------------------------------ publish_*, the lock steps one by one
\* self.metas.write(), lines 177 and 189: blocks while the lock is held.
WriteLock(t) ==
    /\ pc[t] = "idle"
    /\ ncalls < MaxCalls
    /\ crash.at = "none"
    /\ lock = NoLock
    /\ lock' = [lock EXCEPT !.writer = t]
    /\ ncalls' = ncalls + 1
    /\ pc' = [pc EXCEPT ![t] = "locked"]
    /\ ret' = [ret EXCEPT ![t] = "none"]
    /\ UNCHANGED <<metas, disk, pool, lease, buf, built, allOk, hist, leased, dir>>

\* The body of the write-locked block and its end, lines 178-180 and
\* 190-198: the meta becomes m and the write guard is dropped.
LockedUpdate(t, m) ==
    /\ pc[t] = "locked"
    /\ metas' = m
    /\ lock' = [lock EXCEPT !.writer = "none"]
    /\ pc' = [pc EXCEPT ![t] = "save"]
    /\ UNCHANGED <<disk, pool, lease, buf, built, ret, ncalls, allOk, hist, leased, dir>>

\* self.metas.read(): blocks while a writer holds the lock.
ReadLock(t, at, next) ==
    /\ pc[t] = at
    /\ lock.writer = "none"
    /\ lock' = [lock EXCEPT !.readers = @ \cup {t}]
    /\ pc' = [pc EXCEPT ![t] = next]
    /\ UNCHANGED <<metas, disk, pool, lease, buf, built, ret, ncalls, allOk, hist,
                   leased, dir>>

\* save_metas, line 263.
SaveReadLock(t) == ReadLock(t, "save", "serialize")

\* Mutant: the read guard of save_metas lives until the function returns.
SaveSerializeKeepsLock(t) ==
    /\ pc[t] = "serialize"
    /\ buf' = [buf EXCEPT ![t] = Encode(metas)]
    /\ pc' = [pc EXCEPT ![t] = "write"]
    /\ UNCHANGED <<metas, disk, pool, lease, built, ret, ncalls, allOk, hist,
                   leased, lock, dir>>

\* save_metas, lines 264-265: the meta is serialized into w and the read
\* guard is dropped at the end of the block.
SaveSerializeUnlock(t) ==
    /\ pc[t] = "serialize"
    /\ buf' = [buf EXCEPT ![t] = Encode(metas)]
    /\ lock' = [lock EXCEPT !.readers = @ \ {t}]
    /\ pc' = [pc EXCEPT ![t] = "write"]
    /\ UNCHANGED <<metas, disk, pool, lease, built, ret, ncalls, allOk, hist,
                   leased, dir>>

\* load_searchers, line 279, through segments() and segment_ids(), line 236.
SegmentsReadLock(t) ==
    /\ Len(built[t]) < NUM_SEARCHERS
    /\ ReadLock(t, "load", "segments")

\* segment_ids, lines 236-244: the ids are copied and the read guard is
\* dropped when the call returns.
SegmentsUnlock(t) ==
    /\ pc[t] = "segments"
    /\ built' = [built EXCEPT ![t] = Append(built[t], OpenSearcher(metas))]
    /\ lock' = [lock EXCEPT !.readers = @ \ {t}]
    /\ pc' = [pc EXCEPT ![t] = "open"]
    /\ UNCHANGED <<metas, disk, pool, lease, buf, ret, ncalls, allOk, hist, leased, dir>>

\* Lines 280-286: SegmentReader::open of every copied segment succeeds.
OpenSegmentsOk(t) ==
    /\ pc[t] = "open"
    /\ pc' = [pc EXCEPT ![t] = "load"]
    /\ UNCHANGED <<metas, disk, pool, lease, buf, built, ret, ncalls, allOk, hist,
                   leased, lock, dir>>

\* Lines 280-289: a SegmentReader::open fails, try! returns the error.
OpenSegmentsFail(t) ==
    /\ pc[t] = "open"
    /\ built[t][Len(built[t])] # <<>>
    /\ built' = [built EXCEPT ![t] = <<>>]
    /\ Return(t, "err")
    /\ UNCHANGED <<metas, disk, pool, lease, buf, ncalls>>

\* docstamp(), lines 134-139, or segments(), lines 205-214, called by a
\* thread r: the read lock is taken ...
DocstampLock(r) ==
    /\ r \notin lock.readers
    /\ lock.writer = "none"
    /\ lock' = [lock EXCEPT !.readers = @ \cup {r}]
    /\ UNCHANGED <<metas, disk, pool, lease, pc, buf, built, ret, ncalls, allOk, hist,
                   leased, dir>>

\* ... and dropped when the value has been read.
DocstampUnlock(r) ==
    /\ r \in lock.readers
    /\ lock' = [lock EXCEPT !.readers = @ \ {r}]
    /\ UNCHANGED <<metas, disk, pool, lease, pc, buf, built, ret, ncalls, allOk, hist,
                   leased, dir>>

\* Mutant: from_directory does not save the initial meta.
CreateWithoutSave(schema) ==
    /\ crash.at = "none"
    /\ metas' = with_schema(schema)
    /\ pool' = publish_new_generation(NewPool, Replicate(OpenSearcher(with_schema(schema))))
    /\ lease' = [r \in Readers |-> NoLease]
    /\ pc' = [u \in Clones |-> "idle"]
    /\ buf' = [u \in Clones |-> <<>>]
    /\ built' = [u \in Clones |-> <<>>]
    /\ ret' = [u \in Clones |-> "none"]
    /\ allOk' = TRUE
    /\ call' = [NoCall EXCEPT !.op = "create", !.schema = schema]
    /\ preDisk' = disk
    /\ UNCHANGED <<disk, ncalls, pre, post, crash, leased, lock, dir>>

\* Index::create (create_from_tempdir, create_in_ram), lines 77-101, by a new
\* process on the directory whatever it holds, succeeding: from_directory,
\* lines 117-121, builds the index over with_schema(schema)
\* (create_from_metas, lines 104-114) and saves its meta.
Create(schema) ==
    /\ crash.at = "none"
    /\ metas' = with_schema(schema)
    /\ pool' = publish_new_generation(NewPool, Replicate(OpenSearcher(with_schema(schema))))
    /\ disk' = Encode(with_schema(schema))
    /\ lease' = [r \in Readers |-> NoLease]
    /\ pc' = [u \in Clones |-> "idle"]
    /\ buf' = [u \in Clones |-> <<>>]
    /\ built' = [u \in Clones |-> <<>>]
    /\ ret' = [u \in Clones |-> "none"]
    /\ allOk' = TRUE
    /\ call' = [NoCall EXCEPT !.op = "create", !.schema = schema]
    /\ preDisk' = disk
    /\ UNCHANGED <<ncalls, pre, post, crash, leased, lock, dir>>

\* Index::create failing: the atomic_write of save_metas, line 119, returns
\* an error, no Index is returned and meta.json is what it was.
CreateFail(schema) ==
    /\ crash.at = "none"
    /\ metas' = with_schema(schema)
    /\ pool' = NewPool
    /\ lease' = [r \in Readers |-> NoLease]
    /\ pc' = [u \in Clones |-> "idle"]
    /\ buf' = [u \in Clones |-> <<>>]
    /\ built' = [u \in Clones |-> <<>>]
    /\ ret' = [u \in Clones |-> "none"]
    /\ allOk' = TRUE
    /\ call' = [NoCall EXCEPT !.op = "create_failed", !.schema = schema]
    /\ preDisk' = disk
    /\ crash' = [at |-> "createfailed", ok |-> FALSE]
    /\ UNCHANGED <<disk, ncalls, pre, post, leased, lock, dir>>

\* --------------------------------------------------------- specifications
Main == "c1"

\* Clones of the Index publish concurrently while query clients lease searchers.
Next ==
    \/ \E t \in Clones, ids \in IdSlices, d \in Docstamps :
          PublishSegments(t, ids, d) /\ UNCHANGED hist
    \/ \E t \in Clones, merged \in SUBSET SegIds, r \in SegIds :
          PublishMergeSegment(t, merged, r) /\ UNCHANGED hist
    \/ \E t \in Clones : SaveMetasSerialize(t)
    \/ \E t \in Clones : AtomicWriteOk(t)
    \/ \E t \in Clones : AtomicWriteFail(t)
    \/ \E t \in Clones : LoadSearcher(t)
    \/ \E t \in Clones : LoadSearcherFail(t)
    \/ \E t \in Clones : PublishGeneration(t)
    \/ \E r \in Readers : Acquire(r)
    \/ \E r \in Readers : Release(r)

Spec == Init /\ [][Next]_vars

\* publish_* calls are issued one at a time through a single Index handle
\* (they take &mut self); load_searchers then runs with the meta unchanged.

NextSeq ==
    \/ \E ids \in IdSlices, d \in Docstamps :
          /\ PublishSegments(Main, ids, d)
          /\ RecordCall([NoCall EXCEPT !.op = "publish_segments", !.ids = ids, !.docstamp = d])
    \/ \E merged \in SUBSET SegIds, r \in SegIds :
          /\ PublishMergeSegment(Main, merged, r)
          /\ RecordCall([NoCall EXCEPT !.op = "publish_merge_segment", !.merged = merged, !.result = r])
    \/ SaveMetasSerialize(Main)
    \/ AtomicWriteOk(Main)
    \/ AtomicWriteFail(Main)
    \/ LoadSearchers(Main)
    \/ LoadSearchersFail(Main)

SpecSeq == Init /\ [][NextSeq]_vars

\* As SpecSeq, and the process may crash at any point and be reopened.
NextCrash ==
    \/ \E ids \in IdSlices, d \in Docstamps :
          PublishSegments(Main, ids, d) /\ RecordPublication
    \/ \E merged \in SUBSET SegIds, r \in SegIds :
          PublishMergeSegment(Main, merged, r) /\ RecordPublication
    \/ SaveMetasSerialize(Main)
    \/ AtomicWriteOk(Main)
    \/ AtomicWriteFail(Main)
    \/ LoadSearchers(Main)
    \/ LoadSearchersFail(Main)
    \/ CrashReopen(Main)

SpecCrash == Init /\ [][NextCrash]_vars

\* As SpecSeq, while query clients lease searchers.
NextLease ==
    \/ \E ids \in IdSlices, d \in Docstamps :
          PublishSegments(Main, ids, d) /\ UNCHANGED hist
    \/ \E merged \in SUBSET SegIds, r \in SegIds :
          PublishMergeSegment(Main, merged, r) /\ UNCHANGED hist
    \/ SaveMetasSerialize(Main)
    \/ AtomicWriteOk(Main)
    \/ AtomicWriteFail(Main)
    \/ LoadSearchers(Main)
    \/ LoadSearchersFail(Main)
    \/ \E r \in Readers : Acquire(r)
    \/ \E r \in Readers : Release(r)

SpecLease == Init /\ [][NextLease]_vars

\* As SpecSeq; at any point a new process may create an index in the
\* directory, and that process may end and the index be opened again. (A
\* run is followed up to this open: no publish_* call is started after the
\* create.)
NextCreate ==
    \/ \E ids \in IdSlices, d \in Docstamps :
          call.op = "none" /\ PublishSegments(Main, ids, d) /\ UNCHANGED hist
    \/ \E merged \in SUBSET SegIds, r \in SegIds :
          call.op = "none" /\ PublishMergeSegment(Main, merged, r) /\ UNCHANGED hist
    \/ SaveMetasSerialize(Main)
    \/ AtomicWriteOk(Main)
    \/ AtomicWriteFail(Main)
    \/ LoadSearchers(Main)
    \/ LoadSearchersFail(Main)
    \/ \E schema \in NewSchemas : Create(schema)
    \/ \E schema \in NewSchemas : CreateFail(schema)
    \/ CrashReopen(Main)

SpecCreate == Init /\ [][NextCreate]_vars

\* One publish_* call with every lock step on its own, while another thread
\* calls docstamp() or segments().
NextLock ==
    \/ ncalls = 0 /\ WriteLock(Main)
    \/ \E ids \in IdSlices, d \in Docstamps :
          LockedUpdate(Main, PublishSegmentsUpdate(metas, ids, d))
    \/ \E merged \in SUBSET SegIds, r \in SegIds :
          LockedUpdate(Main, PublishMergeUpdate(metas, merged, r))
    \/ SaveReadLock(Main)
    \/ SaveSerializeUnlock(Main)
    \/ AtomicWriteOk(Main)
    \/ AtomicWriteFail(Main)
    \/ SegmentsReadLock(Main)
    \/ SegmentsUnlock(Main)
    \/ OpenSegmentsOk(Main)
    \/ OpenSegmentsFail(Main)
    \/ PublishGeneration(Main)
    \/ \E r \in Readers : DocstampLock(r)
    \/ \E r \in Readers : DocstampUnlock(r)

SpecLock == Init /\ [][NextLock]_vars

\* Query clients lease and drop searchers while load_searchers replaces the
\* generation of the pool.
NextPool ==
    \/ LoadSearchersCall
    \/ \E r \in Readers : SearcherCall(r)
    \/ \E r \in Readers : SearcherReturn(r)
    \/ \E r \in Readers : DropLease(r)
    \/ AcquireOther
    \/ ReleaseOther

SpecPool == Init /\ [][NextPool]_vars

\* As SpecPool, under a fair scheduler: a lease that is held is eventually
\* dropped, and a client that could be served again and again is served.
SpecLive ==
    /\ SpecPool
    /\ \A r \in Readers : WF_vars(DropLease(r))
    /\ WF_vars(ReleaseOther)
    /\ \A r \in Readers : SF_vars(SearcherReturn(r))

\* The Directory used on its own, as in directory/mod.rs: one user creates,
\* writes, replaces and deletes a file while a reader opens it.
NextDir ==
    \/ \E p \in FilePaths : OpenWrite(p)
    \/ \E p \in FilePaths, chunk \in Chunks : WriteAll(p, chunk)
    \/ \E p \in FilePaths : Flush(p)
    \/ \E p \in FilePaths : DropWriter(p)
    \/ \E p \in FilePaths : Delete(p)
    \/ \E p \in FilePaths, data \in DataSet : AtomicWriteBegin(p, data)
    \/ \E p \in FilePaths : TempWrite(p)
    \/ \E p \in FilePaths : RenameTemp(p)
    \/ \E p \in FilePaths : AtomicWriteReturn(p)
    \/ \E r \in DirReaders, p \in FilePaths : OpenRead(r, p)
    \/ \E r \in DirReaders : DropSource(r)

SpecDir == Init /\ [][NextDir]_vars

\* One publish_* call whose atomic_write of meta.json is write-temp + rename,
\* an atomic_write of another path, and a reader opening either path.
NextAtomic ==
    \/ \E ids \in IdSlices, d \in Docstamps :
          ncalls = 0 /\ PublishSegments(Main, ids, d) /\ RecordPublication
    \/ \E merged \in SUBSET SegIds, r \in SegIds :
          ncalls = 0 /\ PublishMergeSegment(Main, merged, r) /\ RecordPublication
    \/ SaveMetasSerialize(Main)
    \/ AtomicWriteBeginMeta(Main)
    \/ AtomicWriteFail(Main)
    \/ AtomicWriteReturnMeta(Main)
    \/ LoadSearchers(Main)
    \/ LoadSearchersFail(Main)
    \/ \E p \in FilePaths, data \in DataSet : AtomicWriteBegin(p, data)
    \/ \E p \in AllPaths : TempWrite(p)
    \/ \E p \in AllPaths : RenameTemp(p)
    \/ \E p \in FilePaths : AtomicWriteReturn(p)
    \/ \E p \in FilePaths : Delete(p)
    \/ \E r \in DirReaders, p \in AllPaths : OpenRead(r, p)
    \/ \E r \in DirReaders : DropSource(r)

SpecAtomic == Init /\ [][NextAtomic]_vars

\* ================================================================ claims
NoneInFlight == \A t \in Clones : pc[t] = "idle"
Queued == BagToSet(pool.queue)

\* C1: after publish_* calls issued one at a time that all returned success,
\* meta.json parses to exactly the in-memory meta (segments, docstamp, schema).
C1_DiskParsesToMeta ==
    (pc[Main] = "idle" /\ allOk) =>
        (load_metas(disk).ok /\ load_metas(disk).meta = metas)

C1_Witness ==
    /\ pc[Main] = "idle" /\ allOk /\ ncalls >= 2
    /\ Len(metas.segments) >= 2 /\ metas.docstamp > 0
    /\ load_metas(disk).meta = metas

\* C2 as stated: a crash before the call returned makes open observe the
\* pre-publication meta, a crash after it returned successfully the
\* post-publication meta.
C2_Original ==
    /\ crash.at \in {"save", "write", "load"} =>
           (load_metas(preDisk).ok /\ metas = load_metas(preDisk).meta)
    /\ crash.at = "returned_ok" => metas = post

\* C2 amended: with calls issued one at a time, a crash before the call's
\* atomic_write took effect makes open observe the meta that meta.json held
\* before the call; a crash after it took effect (before or after the call
\* returned) makes open observe the call's post-publication meta.
C2_CrashAtomicity ==
    /\ crash.at \in {"save", "write"} =>
           (load_metas(preDisk).ok /\ metas = load_metas(preDisk).meta)
    /\ crash.at \in {"load", "returned_ok"} => metas = post

C2_Witness ==
    /\ crash.at = "load"
    /\ metas = post
    /\ post # load_metas(preDisk).meta

\* C3 as stated: when publish_* returns an error, meta.json is what it was
\* before the call.
C3_ErrorLeavesDisk ==
    (pc[Main] = "idle" /\ ret[Main] = "err") => disk = preDisk

\* C4 as stated: when publish_* returns an error, docstamp() and segments()
\* return what they returned before the call.
C4_ErrorLeavesMeta ==
    (pc[Main] = "idle" /\ ret[Main] = "err") =>
        (metas.docstamp = pre.docstamp /\ metas.segments = pre.segments)

\* C5 as stated: every generation load_searchers publishes consists of
\* searchers over one segment sequence, the meta's at the instant of the
\* publication, under any interleaving of the clones.
C5_GenerationIsTheMeta ==
    [][\A t \in Clones :
          (pc[t] = "load" /\ pc'[t] = "idle" /\ ret'[t] = "ok") =>
              \A item \in BagToSet(pool'.queue) : item.segs = metas.segments]_vars

\* C6: the segment set seen through a lease is the same from acquisition
\* until the lease is dropped, whatever is published in between.
C6_LeaseIsFixed ==
    [][\A r \in Readers :
          (lease[r] # NoLease /\ lease'[r] # NoLease) => lease'[r] = lease[r]]_vars

C6_Witness ==
    \E r \in Readers :
        /\ lease[r] # NoLease
        /\ lease[r].gen < pool.generation
        /\ lease[r].segs # metas.segments

\* C7 as stated: once the publish_* calls have returned successfully and
\* none is in progress, every searcher the pool hands out is over the
\* in-memory meta's segment sequence.
C7_PoolReflectsMeta ==
    (NoneInFlight /\ allOk) =>
        \A item \in Queued : item.segs = metas.segments

RECURSIVE Surviving(_, _)
Surviving(s, merged) ==
    IF s = <<>> THEN <<>>
    ELSE IF Head(s) \in merged THEN Surviving(Tail(s), merged)
    ELSE <<Head(s)>> \o Surviving(Tail(s), merged)

C10_DocstampMonotone ==
    (pc[Main] = "idle" /\ ret[Main] = "ok" /\ allOk) =>
        metas.docstamp >= pre.docstamp

\* C11 as stated: in every reachable state the meta's segment sequence holds
\* no SegmentId twice, whatever arguments publish_segments and
\* publish_merge_segment are given.
C11_NoDuplicateSegments ==
    \A i, j \in 1..Len(metas.segments) :
        i # j => metas.segments[i] # metas.segments[j]

\* C12: a load_searchers that fails because a segment cannot be opened
\* publishes nothing: the pool's generation counter and its queued searchers
\* are what they were, so searcher() keeps handing out the prior generation.
C12_FailedLoadPublishesNothing ==
    [][(pc[Main] = "load" /\ pc'[Main] = "idle" /\ ret'[Main] = "err") =>
           (pool' = pool /\ lease' = lease)]_vars

\* load_searchers failed after meta.json was replaced, and a client then
\* leased a searcher: it is of the generation published before the call.
C12_Witness ==
    /\ pc[Main] = "idle" /\ ret[Main] = "err"
    /\ load_metas(disk).meta = metas
    /\ \E r \in Readers :
          /\ lease[r] # NoLease
          /\ lease[r].gen = pool.generation
          /\ lease[r].segs # metas.segments
    /\ \A item \in Queued : item.gen = pool.generation /\ item.segs # metas.segments

\* The searchers of generation g that are leased out.
LeasedOfGeneration(g) ==
    Cardinality({r \in Readers : lease[r].gen = g})
    + BagCardinality([item \in {x \in BagToSet(leased) : x.gen = g} |-> leased[item]])

Outstanding ==
    Cardinality({r \in Readers : lease[r].gen > 0}) + BagCardinality(leased)

\* C13 as stated: the outstanding leases and the queued searchers together
\* never exceed NUM_SEARCHERS, and with NUM_SEARCHERS leases outstanding no
\* searcher is left to hand out.
C13_Original ==
    /\ Outstanding + BagCardinality(pool.queue) <= NUM_SEARCHERS
    /\ Outstanding >= NUM_SEARCHERS => pool.queue = EmptyBag

\* C13 amended: the outstanding leases of the current generation and the
\* queued searchers together never exceed NUM_SEARCHERS, and with
\* NUM_SEARCHERS leases of the current generation outstanding a searcher()
\* call cannot return (until one of them is dropped or a generation is
\* published).
C13_CapacityPerGeneration ==
    /\ LeasedOfGeneration(pool.generation) + BagCardinality(pool.queue) <= NUM_SEARCHERS
    /\ LeasedOfGeneration(pool.generation) = NUM_SEARCHERS =>
           /\ pool.queue = EmptyBag
           /\ \A r \in Readers : ~ ENABLED SearcherReturn(r)

C13_Witness ==
    /\ LeasedOfGeneration(pool.generation) = NUM_SEARCHERS
    /\ Outstanding > NUM_SEARCHERS
    /\ \E r \in Readers : lease[r] = Waiting

AsFile(s) == [exists |-> s.ok, bytes |-> s.bytes]

\* C14: an open_read(p) interleaved with an atomic_write(p, b) obtains the
\* complete previous bytes of p (DoesNotExist if p did not exist) or the
\* complete bytes b; what it obtains from meta.json always parses, to the
\* meta saved before or to the meta being saved.
C14_AtomicWriteIsAllOrNothing ==
    \A r \in DirReaders :
        LET s == source[r]
        IN  /\ s.during.phase # "none" =>
                   \/ AsFile(s) = s.during.old
                   \/ AsFile(s) = [exists |-> TRUE, bytes |-> s.during.data]
            /\ s.path = META_FILEPATH =>
                   /\ s.ok
                   /\ load_metas(s.bytes).ok
                   /\ s.bytes = preDisk \/ load_metas(s.bytes).meta = post

\* meta.json was opened while save_metas had written part of the new meta
\* to the temp file: the reader holds the previous meta.
C14_Witness ==
    \E r \in DirReaders :
        /\ source[r].path = META_FILEPATH
        /\ source[r].during.phase = "writing"
        /\ source[r].during.n > 0
        /\ source[r].during.n < Len(source[r].during.data)
        /\ source[r].bytes # source[r].during.data
        /\ load_metas(source[r].bytes).meta # post

\* The step is the return of the Directory call op on path p.
Called(op, p) == dret' # dret /\ dret'.op = op /\ dret'.path = p

\* The step is the rename of an atomic_write of path p.
Renamed(p) == tmp[p].phase = "writing" /\ tmp'[p].phase = "renamed"

ReadBy(r, p) == source[r] = NoSource /\ source'[r].path = p

C17_CreateThenOpen ==
    call.op = "create" =>
        /\ metas = with_schema(call.schema)
        /\ metas.segments = <<>> /\ metas.docstamp = 0 /\ metas.schema = call.schema
        /\ load_metas(disk).ok
        /\ load_metas(disk).meta = with_schema(call.schema)
        /\ crash.ok

\* An index was created over a meta.json with segments and another schema,
\* and then opened.
C17_Witness ==
    /\ call.op = "create"
    /\ crash.at # "none"
    /\ load_metas(preDisk).meta.segments # <<>>
    /\ load_metas(preDisk).meta.schema # call.schema

\* The thread t is inside a directory operation: the atomic_write of
\* save_metas, or the opening of segment files in load_searchers.
InDirectoryIO(t) == pc[t] \in {"write", "open"}

HoldsLock(t) == lock.writer = t \/ t \in lock.readers

\* C18: a thread that is performing directory I/O holds the meta lock neither
\* for reading nor for writing, and a docstamp() or segments() call can take
\* the read lock while that I/O lasts.
C18_NoLockAcrossIO ==
    \A t \in Clones :
        InDirectoryIO(t) =>
            /\ ~ HoldsLock(t)
            /\ lock.writer = "none"
            /\ \A r \in Readers : r \notin lock.readers => ENABLED DocstampLock(r)

\* docstamp() holds the read lock while the publishing thread opens the
\* segment files of the meta it published.
C18_Witness ==
    /\ InDirectoryIO(Main)
    /\ pc[Main] = "open" /\ metas.segments # <<>>
    /\ \E r \in Readers : r \in lock.readers

\* C19 as stated: once two clones have run publish_* concurrently and both
\* returned successfully, meta.json parses to exactly the in-memory meta,
\* under every interleaving of their update, serialization and atomic_write.
C19_ConcurrentPublishesOnDisk ==
    (NoneInFlight /\ allOk /\ \A t \in Clones : ret[t] = "ok") =>
        (load_metas(disk).ok /\ load_metas(disk).meta = metas)

====
